---- MODULE Spec2Model ----
(***************************************************************************)
(* Model of the validation pipeline of src/streamlit_app.py: validate_link *)
(* under its st.cache_data decorator, the ThreadPoolExecutor batch of      *)
(* main(), the Result Store st.session_state.results and the "Clear All    *)
(* Results" command.  One browser session is modelled in full; the other   *)
(* sessions of the server, which share the cache of st.cache_data and      *)
(* nothing else, are modelled by what they do to that cache.               *)
(* Then normalize_whatsapp_link with its pattern, and the page scraper and *)
(* the scan of the pages of a search.                                      *)
(*                                                                         *)
(* Strings of the program are sequences of tokens (a token stands for a    *)
(* run of characters: a word, a host name, a separator); the empty string  *)
(* is << >>.  An optional value (an absent tag, an absent cache entry) is  *)
(* << >> when absent and << v >> when present.  The strings given to       *)
(* normalize_whatsapp_link are spelled character by character.             *)
(***************************************************************************)
EXTENDS Integers, Sequences, FiniteSets, TLC

(***************************************************************************)
(* Bounds of the model.                                                    *)
(***************************************************************************)
NumLinks == 2
MaxResults == 2
MaxTicks == 2
PoolBatch == 9
MaxPages == 3

(***************************************************************************)
(* Program constants.                                                      *)
(***************************************************************************)
WHATSAPP_DOMAIN == "chat.whatsapp.com"
UNNAMED_GROUP_PLACEHOLDER == << >>
MAX_VALIDATION_WORKERS == 8
\* ttl=3600 of the st.cache_data decorator of validate_link
CACHE_TTL == 3600
\* the clock advances in steps of half a TTL
TickStep == CACHE_TTL \div 2
\* {16,} of WHATSAPP_LINK_PATTERN
MinCodeLength == 16
\* the literals of WHATSAPP_LINK_PATTERN, character by character
HTTP == << "h", "t", "t", "p" >>
HOST_SLASH ==
    << ":", "/", "/", "c", "h", "a", "t", ".", "w", "h", "a", "t", "s", "a", "p", "p", ".", "c", "o", "m", "/" >>
INVITE_SEGMENT == << "i", "n", "v", "i", "t", "e", "/" >>
\* WHATSAPP_DOMAIN, character by character
DOMAIN_CHARS == SubSeq(HOST_SLASH, 4, Len(HOST_SLASH) - 1)

(***************************************************************************)
(* Strings.                                                                *)
(***************************************************************************)
\* str.lower() on one token
LowerTok(t) ==
    CASE t = "This" -> "this"
      [] t = "GROUP" -> "group"
      [] t = "Group" -> "group"
      [] t = "IS" -> "is"
      [] t = "FULL" -> "full"
      [] t = "Invite" -> "invite"
      [] t = "WhatsApp" -> "whatsapp"
      [] t = "Foo" -> "foo"
      [] t = "Bar" -> "bar"
      [] t = "Tom" -> "tom"
      [] t = "Co" -> "co"
      [] OTHER -> t

\* str.lower()
Lower(s) == [i \in 1..Len(s) |-> LowerTok(s[i])]

\* needle in hay (Python substring test)
Contains(hay, needle) ==
    \E i \in 0..(Len(hay) - Len(needle)) :
        \A j \in 1..Len(needle) : hay[i + j] = needle[j]

IsSpace(t) == t = " "

\* str.strip(): leading and trailing white space removed
RECURSIVE Strip(_)
Strip(s) ==
    IF s = << >> THEN << >>
    ELSE IF IsSpace(Head(s)) THEN Strip(Tail(s))
    ELSE IF IsSpace(s[Len(s)]) THEN Strip(SubSeq(s, 1, Len(s) - 1))
    ELSE s

\* html.unescape() on one token
UnescapeTok(t) == IF t = "&amp;" THEN "&" ELSE t

\* html.unescape()
Unescape(s) == [i \in 1..Len(s) |-> UnescapeTok(s[i])]

(***************************************************************************)
(* URLs: << scheme, host tokens..., "/", path and query tokens... >>.      *)
(***************************************************************************)
IsDelim(t) == t \in {"/", "?", "#"}

\* the index of the first delimiter after the scheme, Len(url)+1 if none
RECURSIVE FirstDelim(_, _)
FirstDelim(url, i) ==
    IF i > Len(url) THEN i
    ELSE IF IsDelim(url[i]) THEN i
    ELSE FirstDelim(url, i + 1)

\* urlparse(url).netloc
Netloc(url) ==
    IF Len(url) >= 1 /\ url[1] \in {"http://", "https://"}
    THEN SubSeq(url, 2, FirstDelim(url, 2) - 1)
    ELSE << >>

\* the canonical links are WHATSAPP_BASE_URL followed by an invite code
InviteCodes ==
    << "AbCdEfGhIjKlMnOp01", "AbCdEfGhIjKlMnOp02", "AbCdEfGhIjKlMnOp03",
       "AbCdEfGhIjKlMnOp04", "AbCdEfGhIjKlMnOp05", "AbCdEfGhIjKlMnOp06",
       "AbCdEfGhIjKlMnOp07", "AbCdEfGhIjKlMnOp08", "AbCdEfGhIjKlMnOp09",
       "AbCdEfGhIjKlMnOp10", "AbCdEfGhIjKlMnOp11", "AbCdEfGhIjKlMnOp12" >>

WHATSAPP_BASE_URL == << "https://", WHATSAPP_DOMAIN, "/" >>

CanonicalLink(i) == WHATSAPP_BASE_URL \o << InviteCodes[i] >>

Links == { CanonicalLink(i) : i \in 1..NumLinks }
PoolLinks == { CanonicalLink(i) : i \in 1..PoolBatch }
AllLinks == Links \cup PoolLinks

(***************************************************************************)
(* HTTP responses and pages (the inputs of validate_link).                 *)
(*   kind        "timeout" | "connection" | "response"                     *)
(*   status_code the status of a response                                  *)
(*   url         response.url, the final URL after redirects               *)
(*   page        og_title, h2, og_image: optional strings; body: the text  *)
(*               after the heading; raises: where parsing throws           *)
(*               ("none", "soup" at BeautifulSoup(), "text" at get_text()) *)
(***************************************************************************)
Page(title, h2, image, body, raises) ==
    [og_title |-> title, h2 |-> h2, og_image |-> image, body |-> body,
     raises |-> raises]

Response(kind, code, url, page) ==
    [kind |-> kind, status_code |-> code, url |-> url, page |-> page]

ImageExtensions == {".jpg", ".jpeg", ".png", ".gif", ".webp"}

\* OG_IMAGE_PATTERN.match(u): https?://[^\s/]+/.+\.(jpg|jpeg|png|gif|webp)...
OG_IMAGE_PATTERN(u) ==
    /\ Len(u) >= 5
    /\ u[1] \in {"http://", "https://"}
    /\ ~IsDelim(u[2]) /\ ~IsSpace(u[2])
    /\ u[3] = "/"
    /\ \E k \in 5..Len(u) : LowerTok(u[k]) \in ImageExtensions

\* soup.get_text(): the heading, then the rest of the body
GetText(page) ==
    (IF page.h2 = << >> THEN << >> ELSE page.h2[1]) \o page.body

\* lines 165-169: og:title, else the first h2
ExtractGroupName(page) ==
    LET fromTitle ==
            IF page.og_title # << >> /\ page.og_title[1] # << >>
            THEN Strip(Unescape(page.og_title[1]))
            ELSE << >>
    IN  IF fromTitle # << >> THEN fromTitle
        ELSE IF page.h2 # << >> THEN Strip(page.h2[1])
        ELSE << >>

\* lines 174-176: og:image, kept when it has the shape of an image URL
ExtractLogoUrl(page) ==
    LET logo_url ==
            IF page.og_image # << >> /\ page.og_image[1] # << >>
            THEN Unescape(page.og_image[1])
            ELSE << >>
    IN  IF OG_IMAGE_PATTERN(logo_url) THEN logo_url ELSE << >>

\* the phrases of line 180
ExpiryPhrases ==
    { << "link", "was", "reset" >>,
      << "is", "no", "longer", "available" >>,
      << "group", "is", "full" >> }

HasExpiryPhrase(page_text_lower) ==
    \E phrase \in ExpiryPhrases : Contains(page_text_lower, phrase)

StatusOf(kind, detail) == [kind |-> kind, detail |-> detail]

\* a name wins over an expiry phrase (the precedence of lines 180-185 swapped)
DetermineStatusNameFirst(group_name, page_text_lower) ==
    IF group_name # << >> /\ ~Contains(Lower(group_name), << "invite" >>)
    THEN StatusOf("Active", << >>)
    ELSE IF HasExpiryPhrase(page_text_lower)
    THEN StatusOf("Expired or Full", << >>)
    ELSE StatusOf("Inactive", << >>)

\* lines 179-185
DetermineStatus(group_name, page_text_lower) ==
    IF HasExpiryPhrase(page_text_lower)
    THEN StatusOf("Expired or Full", << >>)
    ELSE IF group_name # << >> /\ ~Contains(Lower(group_name), << "invite" >>)
    THEN StatusOf("Active", << >>)
    ELSE StatusOf("Inactive", << >>)

\* response.raise_for_status()
RaisesForStatus(code) == 400 <= code /\ code < 600

\* line 158: WHATSAPP_DOMAIN not in response.url
RedirectedAway(url) == ~Contains(url, << WHATSAPP_DOMAIN >>)

\* the body of validate_link (lines 152-192) on the response its request gets
ValidateLinkBody(link, resp) ==
    LET result == [GroupName |-> UNNAMED_GROUP_PLACEHOLDER,
                   GroupLink |-> link,
                   LogoURL |-> << >>,
                   Status |-> StatusOf("Inactive", << >>)]
        page == resp.page
        named == [result EXCEPT !.GroupName = ExtractGroupName(page)]
        logoed == [named EXCEPT !.LogoURL = ExtractLogoUrl(page)]
    IN  IF resp.kind = "timeout"
        THEN [result EXCEPT !.Status = StatusOf("Timeout Error", << >>)]
        ELSE IF resp.kind = "connection"
        THEN [result EXCEPT !.Status = StatusOf("Connection Error", << >>)]
        ELSE IF RaisesForStatus(resp.status_code)
        THEN [result EXCEPT !.Status =
                  StatusOf("HTTP Error", << ToString(resp.status_code) >>)]
        ELSE IF RedirectedAway(resp.url)
        THEN [result EXCEPT !.Status =
                  StatusOf("Redirected Away", Netloc(resp.url))]
        ELSE IF page.raises = "soup"
        THEN [result EXCEPT !.Status = StatusOf("Parsing Error", << >>)]
        ELSE IF page.raises = "text"
        THEN [logoed EXCEPT !.Status = StatusOf("Parsing Error", << >>)]
        ELSE [logoed EXCEPT !.Status =
                  DetermineStatus(named.GroupName, Lower(GetText(page)))]

(***************************************************************************)
(* The state.                                                              *)
(*   now              the clock, in seconds                                *)
(*   cache            the storage of st.cache_data for validate_link: one  *)
(*                    optional entry [value, stamp] per cache key; shared  *)
(*                    by all sessions                                      *)
(*   lock             per cache key, the call holding the lock under which *)
(*                    st.cache_data computes a missing value: << >>, or    *)
(*                    << "this", link >> for a call of the session, or     *)
(*                    << "other", link >> for a call of another session    *)
(*   results          st.session_state.results                             *)
(*   pc               "idle": the script is not validating; "validating":  *)
(*                    it is inside the executor block                      *)
(*   links_to_process the set built by the action button of the script run *)
(*                    that is validating, {} otherwise                     *)
(*   futures          the futures of the batch: per dispatched link the    *)
(*                    state of its validate_link call, the path it         *)
(*                    returned by and its result                           *)
(*   new_results      the records collected so far, in completion order    *)
(*   validated        per link validated by a request: the record the      *)
(*                    latest request produced, when, and from which        *)
(*                    response; forgotten when the cache is cleared and    *)
(*                    when its ttl has passed                              *)
(*   raw_link         the argument of a call of normalize_whatsapp_link    *)
(*   normalized       what that call returned: << >> while it has not      *)
(*                    returned, << v >> when it returned v (v is << >> for *)
(*                    None and << canonical link >> otherwise)             *)
(*   search_results   the pages of a run of run_google_search_and_scrape,  *)
(*                    in the order of the search                           *)
(*   scraped          the number of those pages the loop has scraped       *)
(*   all_found_links  the set the loop has collected                       *)
(***************************************************************************)
VARIABLES now, cache, lock, results, pc, links_to_process, futures,
          new_results, validated,
          raw_link, normalized, search_results, scraped, all_found_links

\* the state of validation
validate_vars == << now, cache, lock, results, pc, links_to_process, futures,
                    new_results, validated >>

\* the state of normalization and scraping
scrape_vars ==
    << raw_link, normalized, search_results, scraped, all_found_links >>

vars == << validate_vars, scrape_vars >>

\* The key st.cache_data derives for a call of validate_link(_link): the
\* function and its hashed arguments, and an argument whose name starts with
\* an underscore is not hashed.
CacheKey(link) == << "validate_link" >>

Keys == { CacheKey(l) : l \in AllLinks }

\* an entry that never counts as fresh (a cache that memoizes nothing)
CacheFreshNever(entry, t) == FALSE

\* lazy expiry: an entry is served until its ttl has passed
CacheFresh(entry, t) == t < entry.stamp + CACHE_TTL

\* the lookup of the cached value of a key, << >> on a miss
CacheRead(c, key, t) ==
    IF c[key] # << >> /\ CacheFresh(c[key][1], t)
    THEN << c[key][1].value >>
    ELSE << >>

NoneValidated == [l \in {} |-> [rec |-> << >>, at |-> 0, resp |-> << >>]]

NoFutures == [l \in {} |-> [st |-> "queued", how |-> "", result |-> << >>]]

\* no call of normalize_whatsapp_link and no scan is under way
NothingToScrape ==
    /\ raw_link = << >>
    /\ normalized = << >>
    /\ search_results = << >>
    /\ scraped = 0
    /\ all_found_links = {}

Init ==
    /\ now = 0
    /\ cache = [k \in Keys |-> << >>]
    /\ lock = [k \in Keys |-> << >>]
    /\ results = << >>
    /\ pc = "idle"
    /\ links_to_process = {}
    /\ futures = NoFutures
    /\ new_results = << >>
    /\ validated = NoneValidated
    /\ NothingToScrape

\* line 336
ExistingLinks(store) == { store[i].GroupLink : i \in 1..Len(store) }

\* every submitted link is dispatched (line 337 without the difference)
NewLinksToValidateAll(submitted, existing) == submitted

\* line 337
NewLinksToValidate(submitted, existing) == submitted \ existing

\* the validate_link calls of the batch that have started and not returned
InFlight ==
    { l \in DOMAIN futures : futures[l].st \in {"waiting", "fetching"} }

\* an executor that runs every submitted task at once
WorkerFreeAlways == TRUE

\* ThreadPoolExecutor(max_workers=MAX_VALIDATION_WORKERS): a queued task
\* starts when fewer than max_workers tasks are running
WorkerFree == Cardinality(InFlight) < MAX_VALIDATION_WORKERS

\* the collecting loop ends with the first completed future
BatchCompleteAny == \E l \in DOMAIN futures : futures[l].st = "done"

\* as_completed(futures) is exhausted: every future is done
BatchComplete == \A l \in DOMAIN futures : futures[l].st = "done"

\* An action button built links_to_process = S (lines 284-327); lines 336-341.
\* With nothing new to validate the script goes on to the display and
\* changes no state.
Submit(S, cap) ==
    LET new == NewLinksToValidate(S, ExistingLinks(results))
    IN  /\ pc = "idle"
        /\ Len(results) + Cardinality(new) <= cap
        /\ IF new # {}
           THEN /\ links_to_process' = S
                /\ pc' = "validating"
                /\ futures' = [l \in new |->
                                  [st |-> "queued", how |-> "", result |-> << >>]]
                /\ new_results' = << >>
           ELSE UNCHANGED << links_to_process, pc, futures, new_results >>
        /\ UNCHANGED << now, cache, lock, results, validated >>
        /\ UNCHANGED scrape_vars

\* The call of link l returns rec and the loop of lines 345-346 collects it.
\* how: the path the call returned by ("cache": the first lookup hit,
\* "lock": the lookup under the lock hit, "request": the body ran).
Returns(l, rec, how) ==
    /\ futures' = [futures EXCEPT ![l] =
                       [st |-> "done", how |-> how, result |-> << rec >>]]
    /\ new_results' = Append(new_results, rec)

\* A worker starts validate_link(l): the cache is looked up; a hit returns
\* the cached value, a miss goes on to the compute lock of the key.
Start(l) ==
    /\ pc = "validating"
    /\ l \in DOMAIN futures
    /\ futures[l].st = "queued"
    /\ WorkerFree
    /\ LET hit == CacheRead(cache, CacheKey(l), now)
       IN  IF hit # << >>
           THEN Returns(l, hit[1], "cache")
           ELSE /\ futures' = [futures EXCEPT ![l].st = "waiting"]
                /\ UNCHANGED new_results
    /\ UNCHANGED << now, cache, lock, results, pc, links_to_process, validated >>
    /\ UNCHANGED scrape_vars

\* The call takes the compute lock of its key and looks the cache up again:
\* a value computed meanwhile is returned, otherwise the request is issued.
Acquire(l) ==
    /\ pc = "validating"
    /\ l \in DOMAIN futures
    /\ futures[l].st = "waiting"
    /\ lock[CacheKey(l)] = << >>
    /\ LET hit == CacheRead(cache, CacheKey(l), now)
       IN  IF hit # << >>
           THEN /\ Returns(l, hit[1], "lock")
                /\ UNCHANGED lock
           ELSE /\ futures' = [futures EXCEPT ![l].st = "fetching"]
                /\ lock' = [lock EXCEPT ![CacheKey(l)] = << "this", l >>]
                /\ UNCHANGED new_results
    /\ UNCHANGED << now, cache, results, pc, links_to_process, validated >>
    /\ UNCHANGED scrape_vars

\* st.cache_data stores the record the body computed, stamped with the time
Store(l, resp, rec) ==
    /\ cache' = [cache EXCEPT ![CacheKey(l)] =
                     << [value |-> rec, stamp |-> now] >>]
    /\ validated' = [x \in DOMAIN validated \cup {l} |->
                         IF x = l THEN [rec |-> rec, at |-> now, resp |-> resp]
                         ELSE validated[x]]
    /\ lock' = [lock EXCEPT ![CacheKey(l)] = << >>]

\* The request of validate_link(l) ends with resp: the body computes the
\* record, st.cache_data stores it under the key and releases the lock.
Finish(l, resp) ==
    /\ pc = "validating"
    /\ l \in DOMAIN futures
    /\ futures[l].st = "fetching"
    /\ Store(l, resp, ValidateLinkBody(l, resp))
    /\ Returns(l, ValidateLinkBody(l, resp), "request")
    /\ UNCHANGED << now, results, pc, links_to_process >>
    /\ UNCHANGED scrape_vars

\* lines 350-354: the new records are put in front of the stored ones
Merge ==
    /\ pc = "validating"
    /\ BatchComplete
    /\ results' = new_results \o results
    /\ pc' = "idle"
    /\ futures' = NoFutures
    /\ new_results' = << >>
    /\ links_to_process' = {}
    /\ UNCHANGED << now, cache, lock, validated >>
    /\ UNCHANGED scrape_vars

\* st.cache_data.clear() (line 332)
CacheClear ==
    /\ cache' = [k \in Keys |-> << >>]
    /\ validated' = NoneValidated

\* lines 330-333: Clear All Results
ClearAllResults ==
    /\ pc = "idle"
    /\ results' = << >>
    /\ CacheClear
    /\ UNCHANGED << now, lock, pc, links_to_process, futures, new_results >>
    /\ UNCHANGED scrape_vars

\* A call of validate_link(l) in another session missed the cache and takes
\* the compute lock (the calls of other sessions that hit change nothing).
OtherSessionAcquire(l) ==
    /\ lock[CacheKey(l)] = << >>
    /\ CacheRead(cache, CacheKey(l), now) = << >>
    /\ lock' = [lock EXCEPT ![CacheKey(l)] = << "other", l >>]
    /\ UNCHANGED << now, cache, results, pc, links_to_process, futures,
                    new_results, validated >>
    /\ UNCHANGED scrape_vars

\* the request of that call ends with resp
OtherSessionFinish(l, resp) ==
    /\ lock[CacheKey(l)] = << "other", l >>
    /\ Store(l, resp, ValidateLinkBody(l, resp))
    /\ UNCHANGED << now, results, pc, links_to_process, futures, new_results >>
    /\ UNCHANGED scrape_vars

\* Clear All Results in another session clears the cache of all sessions
OtherSessionClear ==
    /\ CacheClear
    /\ UNCHANGED << now, lock, results, pc, links_to_process, futures,
                    new_results >>
    /\ UNCHANGED scrape_vars

\* time passes
Tick ==
    /\ now + TickStep <= MaxTicks * TickStep
    /\ now' = now + TickStep
    /\ validated' = [l \in { x \in DOMAIN validated :
                                  now' < validated[x].at + CACHE_TTL } |->
                          validated[l]]
    /\ UNCHANGED << cache, lock, results, pc, links_to_process, futures,
                    new_results >>
    /\ UNCHANGED scrape_vars

(***************************************************************************)
(* The responses a request can get.                                        *)
(***************************************************************************)
Titles ==
    { << >>,
      << << "Foo" >> >>,
      << << "WhatsApp", "Group", "Invite" >> >>,
      << << " " >> >>,
      << << "Tom", "&amp;", "Co" >> >> }

Headings == { << >>, << << "Bar" >> >> }

Images ==
    { << >>,
      << << "https://", "pps.whatsapp.net", "/", "v", "/", "pic", ".jpg",
            "?", "ccb=1" >> >>,
      << << "https://", "cdn.example", "/", "logo", ".svg" >> >> }

Bodies ==
    { << "This", "invite", "link", "was", "reset" >>,
      << "This", "group", "is", "no", "longer", "available" >>,
      << "GROUP", "IS", "FULL" >>,
      << "this", "group", "no", "longer", "exists" >>,
      << "this", "link", "no", "longer", "active" >>,
      << "join", "group" >>,
      << >> }

LivePage ==
    Page(<< << "Foo" >> >>, << << "Bar" >> >>, << >>, << "join", "group" >>,
         "none")

\* the pages that parse, and a page on which parsing throws early or late
Pages ==
    { Page(t, h, i, b, "none") :
        t \in Titles, h \in Headings, i \in Images, b \in Bodies }
    \cup { [LivePage EXCEPT !.raises = r] : r \in {"soup", "text"} }

NoPage == Page(<< >>, << >>, << >>, << >>, "none")

\* final URLs on other hosts: one not naming the invitation domain, one
\* naming it in the query string, one naming it as a prefix of the host
OffSiteUrls ==
    { << "https://", "www.whatsapp.com", "/" >>,
      << "https://", "evil.example", "/", "join", "?", "next=",
         WHATSAPP_DOMAIN >>,
      << "https://", WHATSAPP_DOMAIN, ".evil.example", "/", "join" >> }

OffSitePages ==
    { LivePage,
      Page(<< >>, << >>, << >>, << "GROUP", "IS", "FULL" >>, "none"),
      NoPage }

Failures ==
    { Response("timeout", 0, << >>, NoPage),
      Response("connection", 0, << >>, NoPage) }

\* the responses a request for link can get
Responses(link) ==
    Failures
    \cup { Response("response", c, link, NoPage) : c \in {404, 500} }
    \cup { Response("response", 200, link, p) : p \in Pages }
    \cup { Response("response", 200, u, p) : u \in OffSiteUrls, p \in OffSitePages }

\* a request that times out and one that finds the page of a live group
BatchResponses(link) ==
    { Response("timeout", 0, << >>, NoPage),
      Response("response", 200, link, LivePage) }

(***************************************************************************)
(* The session submitting batches of the links while other sessions use    *)
(* and clear the cache and time passes.                                    *)
(***************************************************************************)
Next ==
    \/ \E S \in SUBSET Links : Submit(S, MaxResults)
    \/ \E l \in Links : Start(l)
    \/ \E l \in Links : Acquire(l)
    \/ \E l \in Links : \E resp \in BatchResponses(l) : Finish(l, resp)
    \/ Merge
    \/ ClearAllResults
    \/ \E l \in Links : OtherSessionAcquire(l)
    \/ \E l \in Links : \E resp \in BatchResponses(l) : OtherSessionFinish(l, resp)
    \/ OtherSessionClear
    \/ Tick

Spec == Init /\ [][Next]_vars

(***************************************************************************)
(* The session alone validating batches of the links, every response       *)
(* possible.                                                               *)
(***************************************************************************)
OutcomeProgress ==
    \/ \E l \in Links : Start(l)
    \/ \E l \in Links : Acquire(l)
    \/ \E l \in Links : \E resp \in Responses(l) : Finish(l, resp)
    \/ Merge

OutcomeNext ==
    \/ \E S \in SUBSET Links : Submit(S, MaxResults)
    \/ OutcomeProgress
    \/ ClearAllResults

\* the executor's threads run and every request ends (timeout=15)
OutcomeSpec == Init /\ [][OutcomeNext]_vars /\ WF_vars(OutcomeProgress)

(***************************************************************************)
(* The session alone validating one batch larger than the worker pool.     *)
(***************************************************************************)
\* the place of a link in the list of line 337, here the order of the codes
LinkIndex(l) == CHOOSE i \in 1..Len(InviteCodes) : CanonicalLink(i) = l

\* the executor's queue is first in, first out: the next task to start is
\* the first queued one
HeadOfQueue(l) ==
    /\ l \in DOMAIN futures
    /\ futures[l].st = "queued"
    /\ \A m \in DOMAIN futures :
           futures[m].st = "queued" => LinkIndex(l) <= LinkIndex(m)

PoolNext ==
    \/ Submit(PoolLinks, PoolBatch)
    \/ \E l \in PoolLinks : HeadOfQueue(l) /\ Start(l)
    \/ \E l \in PoolLinks : Acquire(l)
    \/ \E l \in PoolLinks : \E resp \in BatchResponses(l) : Finish(l, resp)
    \/ Merge

PoolSpec == Init /\ [][PoolNext]_vars

(***************************************************************************)
(* normalize_whatsapp_link.  Its argument is a string of single            *)
(* characters: every token is one character.                               *)
(***************************************************************************)
UpperLetters ==
    { "A", "B", "C", "D", "E", "F", "G", "H", "I", "J", "K", "L", "M",
      "N", "O", "P", "Q", "R", "S", "T", "U", "V", "W", "X", "Y", "Z" }

LowerLetters ==
    { "a", "b", "c", "d", "e", "f", "g", "h", "i", "j", "k", "l", "m",
      "n", "o", "p", "q", "r", "s", "t", "u", "v", "w", "x", "y", "z" }

Digits == { "0", "1", "2", "3", "4", "5", "6", "7", "8", "9" }

\* [A-Za-z0-9_-]
CodeChar(c) == c \in UpperLetters \cup LowerLetters \cup Digits \cup {"_", "-"}

\* s has literal at index i
HasLiteral(s, i, literal) ==
    /\ i + Len(literal) - 1 <= Len(s)
    /\ \A j \in 1..Len(literal) : s[i + j - 1] = literal[j]

\* the number of characters of [A-Za-z0-9_-] that s has from index i on
RECURSIVE CodeRun(_, _)
CodeRun(s, i) ==
    IF i <= Len(s) /\ CodeChar(s[i]) THEN 1 + CodeRun(s, i + 1) ELSE 0

\* ([A-Za-z0-9_-]{16,}) at index c, after the base url that ends before
\* index b: the groups of the match, greedy, or << >> when there are fewer
\* than 16 such characters
MatchCode(s, b, c) ==
    IF CodeRun(s, c) >= MinCodeLength
    THEN << << SubSeq(s, 1, b - 1), SubSeq(s, c, c + CodeRun(s, c) - 1) >> >>
    ELSE << >>

\* ([A-Za-z0-9_-]{16,}) alone after the base url: a pattern without the
\* optional invite/
MatchPathWithoutInvite(s, b) == MatchCode(s, b, b)

\* (?:invite/)?([A-Za-z0-9_-]{16,}) after the base url that ends before
\* index b: with invite/ first, then without it
MatchPath(s, b) ==
    IF /\ HasLiteral(s, b, INVITE_SEGMENT)
       /\ MatchCode(s, b, b + Len(INVITE_SEGMENT)) # << >>
    THEN MatchCode(s, b, b + Len(INVITE_SEGMENT))
    ELSE MatchCode(s, b, b)

\* WHATSAPP_LINK_PATTERN.match(s): the pattern matched at the start of s,
\* not necessarily to its end; << >> for no match, << groups >> for a match.
\* s? takes the s first and gives it up when the rest fails.
WHATSAPP_LINK_PATTERN(s) ==
    IF /\ HasLiteral(s, 1, HTTP \o << "s" >> \o HOST_SLASH)
       /\ MatchPath(s, Len(HTTP) + 1 + Len(HOST_SLASH) + 1) # << >>
    THEN MatchPath(s, Len(HTTP) + 1 + Len(HOST_SLASH) + 1)
    ELSE IF HasLiteral(s, 1, HTTP \o HOST_SLASH)
    THEN MatchPath(s, Len(HTTP) + Len(HOST_SLASH) + 1)
    ELSE << >>

\* lines 104-111 (the argument is a string, line 104)
normalize_whatsapp_link(raw) ==
    LET match == WHATSAPP_LINK_PATTERN(Strip(raw))
    IN  IF match # << >>
        THEN << match[1][1] \o match[1][2] >>
        ELSE << >>

\* normalize_whatsapp_link(raw) is called, once the call before it returned
NormalizeCall(raw) ==
    /\ raw_link = << >> \/ normalized # << >>
    /\ raw_link' = raw
    /\ normalized' = << >>
    /\ UNCHANGED << search_results, scraped, all_found_links >>
    /\ UNCHANGED validate_vars

\* the call returns
NormalizeReturn ==
    /\ raw_link # << >>
    /\ normalized = << >>
    /\ normalized' = << normalize_whatsapp_link(raw_link) >>
    /\ UNCHANGED << raw_link, search_results, scraped, all_found_links >>
    /\ UNCHANGED validate_vars

\* the raw links: leading space, scheme, ://, host, /, invite/ or not, the
\* code segment, what follows it, trailing space
Code16 == << "A", "b", "C", "d", "E", "f", "G", "h", "I", "j", "K", "l", "M", "n", "O", "p" >>

RawSchemes == { HTTP \o << "s" >>, HTTP, << "H", "T", "T", "P", "S" >> }

RawHosts ==
    { << "c", "h", "a", "t", ".", "w", "h", "a", "t", "s", "a", "p", "p", ".", "c", "o", "m" >>,
      << "c", "h", "a", "t", "x", "w", "h", "a", "t", "s", "a", "p", "p", ".", "c", "o", "m" >> }

RawInvites == { << >>, INVITE_SEGMENT }

RawSegments ==
    { Code16,
      Code16 \o << "7" >>,
      Code16 \o << "_", "-", "0" >>,
      SubSeq(Code16, 1, MinCodeLength - 1),
      << "a", "b", "c" >>,
      Code16 \o << "!" >>,
      Code16 \o << "%", "2", "0", "x" >>,
      << "A", "b", "!" >> \o Code16,
      SubSeq(Code16, 1, MinCodeLength - 1) \o << ".", "x", "y" >> }

RawSuffixes ==
    { << >>,
      << "/" >>,
      << "?", "a", "=", "1" >>,
      << "#", "x" >>,
      << "?", "b", "=", "2", "#", "y" >> }

RawPads == { << >>, << " " >> }

RawLinks ==
    { lead \o scheme \o << ":", "/", "/" >> \o host \o << "/" >> \o invite
          \o segment \o suffix \o trail :
        lead \in RawPads, scheme \in RawSchemes, host \in RawHosts,
        invite \in RawInvites, segment \in RawSegments,
        suffix \in RawSuffixes, trail \in RawPads }

(***************************************************************************)
(* Calls of normalize_whatsapp_link on the raw links.                      *)
(***************************************************************************)
NormalizeNext ==
    \/ \E raw \in RawLinks : NormalizeCall(raw)
    \/ NormalizeReturn

NormalizeSpec == Init /\ [][NormalizeNext]_vars

(***************************************************************************)
(* scrape_whatsapp_links_from_page and run_google_search_and_scrape.  A    *)
(* page is what the request for its url gets: how the request ends, the    *)
(* status code, the href attributes of the a tags of the document and      *)
(* whether BeautifulSoup raises on it.                                     *)
(***************************************************************************)
ScrapedPage(kind, code, hrefs, raises) ==
    [kind |-> kind, status_code |-> code, hrefs |-> hrefs, raises |-> raises]

\* re.compile(WHATSAPP_DOMAIN).search(href): the pattern is found somewhere
\* in href, and an unescaped dot of the pattern matches any character
HrefPattern(href) ==
    \E i \in 0..(Len(href) - Len(DOMAIN_CHARS)) :
        \A j \in 1..Len(DOMAIN_CHARS) :
            DOMAIN_CHARS[j] = "." \/ href[i + j] = DOMAIN_CHARS[j]

\* lines 204-208: the normalized links of the a tags the filter keeps
NormalizedHrefs(page) ==
    { normalize_whatsapp_link(href)[1] :
          href \in { h \in page.hrefs :
                        /\ HrefPattern(h)
                        /\ normalize_whatsapp_link(h) # << >> } }

\* the body of the try block without the exceptions: every fetched document
\* is scraped
scrape_without_exceptions(page) == NormalizedHrefs(page)

\* lines 196-210: an exception of session.get, of raise_for_status or of
\* the parser is caught and the set, still empty, is returned
scrape_whatsapp_links_from_page(page) ==
    IF page.kind # "response" THEN {}
    ELSE IF RaisesForStatus(page.status_code) THEN {}
    ELSE IF page.raises # "none" THEN {}
    ELSE NormalizedHrefs(page)

\* a run of run_google_search_and_scrape is inside the loop of line 227
Scanning == scraped < Len(search_results)

\* lines 216-224: the search returned the urls of pages (no url, or a
\* search that raised: set() is returned at once).  The variables of a run
\* are its own, so one run is followed from its start.
SearchAndScrape(pages) ==
    /\ search_results = << >>
    /\ search_results' = pages
    /\ scraped' = 0
    /\ all_found_links' = {}
    /\ UNCHANGED << raw_link, normalized >>
    /\ UNCHANGED validate_vars

\* lines 227-231: one turn of the loop
ScrapeNextPage ==
    /\ Scanning
    /\ all_found_links' = all_found_links
           \cup scrape_whatsapp_links_from_page(search_results[scraped + 1])
    /\ scraped' = scraped + 1
    /\ UNCHANGED << raw_link, normalized, search_results >>
    /\ UNCHANGED validate_vars

\* the href attributes of the pages
HrefOne == HTTP \o << "s" >> \o HOST_SLASH \o INVITE_SEGMENT \o Code16

HrefTwo ==
    HTTP \o << "s" >> \o HOST_SLASH \o Code16 \o << "7" >>
        \o << "?", "a", "=", "1" >>

HrefThree == HTTP \o << "s" >> \o HOST_SLASH \o Code16 \o << "_", "-", "0" >>

HrefShort == HTTP \o << "s" >> \o HOST_SLASH \o << "a", "b", "c" >>

HrefOtherHost ==
    HTTP \o << "s", ":", "/", "/" >>
        \o << "c", "h", "a", "t", "x", "w", "h", "a", "t", "s", "a", "p", "p", ".", "c", "o", "m" >>
        \o << "/" >> \o Code16

\* the pages of a search
ScrapedPages ==
    { ScrapedPage("response", 200, { HrefOne, HrefShort, HrefOtherHost }, "none"),
      ScrapedPage("response", 200, { HrefTwo, HrefOne }, "none"),
      ScrapedPage("response", 200, {}, "none"),
      ScrapedPage("timeout", 0, {}, "none"),
      ScrapedPage("response", 404, { HrefThree }, "none"),
      ScrapedPage("response", 200, { HrefThree }, "soup") }

RECURSIVE SeqsUpTo(_, _)
\* the sequences of at most n elements of S
SeqsUpTo(S, n) ==
    IF n = 0 THEN { << >> }
    ELSE SeqsUpTo(S, n - 1)
         \cup { Append(q, x) : q \in { r \in SeqsUpTo(S, n - 1) : Len(r) = n - 1 },
                                x \in S }

(***************************************************************************)
(* Scans of the pages of a search.                                         *)
(***************************************************************************)
ScanNext ==
    \/ \E pages \in SeqsUpTo(ScrapedPages, MaxPages) : SearchAndScrape(pages)
    \/ ScrapeNextPage

\* the loop runs on: every request ends (timeout=10)
ScanSpec == Init /\ [][ScanNext]_vars /\ WF_vars(ScrapeNextPage)

(***************************************************************************)
(* The claims.                                                             *)
(***************************************************************************)
StatusKinds ==
    { "Active", "Expired or Full", "Redirected Away", "Inactive",
      "Timeout Error", "HTTP Error", "Connection Error", "Parsing Error" }

GroupLinks(records) == { records[i].GroupLink : i \in 1..Len(records) }

\* the futures that are done
Done == { l \in DOMAIN futures : futures[l].st = "done" }

\* C1: a completed batch of N distinct links not in the Result Store holds
\* exactly N records, their Group Links pairwise distinct and equal, as a
\* set, to the dispatched links, every Status in the closed enumeration.
C1_BatchYieldsOneRecordPerLink ==
    (pc = "validating" /\ Done = DOMAIN futures) =>
        /\ Len(new_results) = Cardinality(DOMAIN futures)
        /\ GroupLinks(new_results) = DOMAIN futures
        /\ \A i, j \in 1..Len(new_results) :
               new_results[i].GroupLink = new_results[j].GroupLink => i = j
        /\ \A i \in 1..Len(new_results) :
               new_results[i].Status.kind \in StatusKinds

\* C2: the record validate_link(L) returns, computed or served from the
\* cache, has Group Link L: a lookup for L is never served the record of
\* another link.
C2_CacheKeyedByLink ==
    \A l \in Done : futures[l].result[1].GroupLink = l

\* C3: a call of validate_link for a link that was validated within the TTL,
\* the cache not cleared since, returns at once the record of that
\* validation and issues no request.
C3_CacheHitWithinTtl ==
    [][\A l \in DOMAIN futures :
          ( /\ l \in DOMAIN futures'
            /\ futures[l].st = "queued"
            /\ futures'[l].st # "queued"
            /\ l \in DOMAIN validated
            /\ now < validated[l].at + CACHE_TTL )
          => /\ futures'[l].st = "done"
             /\ futures'[l].how = "cache"
             /\ futures'[l].result = << validated[l].rec >>
             /\ new_results' = Append(new_results, validated[l].rec)
             /\ validated' = validated
             /\ cache' = cache]_vars

\* C3 witness: a link another session validated by a request is served to
\* the session from the cache, the same record.
C3_Witness ==
    \E l \in Done :
        /\ futures[l].how = "cache"
        /\ l \in DOMAIN validated
        /\ futures[l].result = << validated[l].rec >>
        /\ futures[l].result[1].GroupLink = l

\* C4: the Result Store never holds two records of one link.
C4_OneRecordPerLink ==
    \A i, j \in 1..Len(results) :
        results[i].GroupLink = results[j].GroupLink => i = j

\* the records of a link in a sequence of records
RecordsOf(records, link) ==
    { i \in 1..Len(records) : records[i].GroupLink = link }

\* C5: when the merge brings a record of a link that is stored with another
\* status, the store afterwards holds exactly one record of that link, with
\* the later status, and the records of the other links are all still there.
C5_MergeLastWriteWins ==
    [][(pc = "validating" /\ pc' = "idle") =>
          \A i \in 1..Len(new_results) :
              LET r == new_results[i]
              IN  (\E j \in RecordsOf(results, r.GroupLink) :
                       results[j].Status # r.Status)
                  => /\ Cardinality(RecordsOf(results', r.GroupLink)) = 1
                     /\ \A k \in RecordsOf(results', r.GroupLink) :
                            results'[k].Status = r.Status
                     /\ \A j \in 1..Len(results) :
                            results[j].GroupLink # r.GroupLink
                                => \E k \in 1..Len(results') :
                                       results'[k] = results[j]]_vars

\* C6: no more than MAX_VALIDATION_WORKERS calls of validate_link are in
\* flight in a batch, whatever its size.
C6_BoundedInFlight ==
    Cardinality({ l \in DOMAIN futures :
                    futures[l].st \in {"waiting", "fetching"} })
        <= MAX_VALIDATION_WORKERS

\* C6 witness: all the workers are busy and a link of the batch waits.
C6_Witness ==
    /\ Cardinality({ l \in DOMAIN futures :
                       futures[l].st \in {"waiting", "fetching"} })
           = MAX_VALIDATION_WORKERS
    /\ \E l \in DOMAIN futures : futures[l].st = "queued"

\* C7: a batch dispatches exactly the submitted links that are not stored,
\* and no batch is dispatched when there is none: then nothing is validated
\* and the store does not change.
C7_StoredLinksNotDispatched ==
    [][/\ (pc = "idle" /\ pc' = "validating") =>
              /\ DOMAIN futures' = links_to_process' \ GroupLinks(results)
              /\ DOMAIN futures' # {}
              /\ results' = results
       /\ (pc = "idle" /\ pc' = "idle" /\ results' # results)
              => results' = << >>
       /\ pc = "validating" => DOMAIN futures' \subseteq DOMAIN futures
      ]_vars

\* C7 witness: a batch is validating and a submitted link that is stored was
\* left out of it.
C7_Witness ==
    /\ pc = "validating"
    /\ \E l \in links_to_process :
           l \in GroupLinks(results) /\ l \notin DOMAIN futures

\* C8: every done future holds one record and the records collected are
\* those of the done futures; the store changes only by Clear All Results
\* or by the merge of a batch all of whose futures are done, which puts one
\* record per dispatched link in front of the stored ones; and a batch that
\* is validating is eventually merged, whatever the responses.
C8_BatchNeverAborted ==
    /\ [](/\ \A l \in DOMAIN futures :
                 (futures[l].st = "done") = (Len(futures[l].result) = 1)
          /\ Len(new_results) = Cardinality(Done))
    /\ [][results' # results =>
             \/ results' = << >>
             \/ /\ pc = "validating"
                /\ Done = DOMAIN futures
                /\ Len(new_results) = Cardinality(DOMAIN futures)
                /\ results' = new_results \o results]_vars
    /\ (pc = "validating") ~> (pc = "idle")

ErrorKinds ==
    { "Timeout Error", "HTTP Error", "Connection Error", "Parsing Error" }

\* C8 witness: a batch of two links whose request ended in an error has been
\* merged.
C8_Witness ==
    /\ pc = "idle"
    /\ Len(results) >= 2
    /\ results[1].Status.kind \in ErrorKinds

\* the response is a page of the invitation domain that parsed
SameDomainPage(resp) ==
    /\ resp.kind = "response"
    /\ 200 <= resp.status_code /\ resp.status_code < 300
    /\ Netloc(resp.url) = << WHATSAPP_DOMAIN >>
    /\ resp.page.raises = "none"

\* the status the precedence gives: an expiry phrase, else a name, else none
StatusByPrecedence(phrases, name, text) ==
    IF \E ph \in phrases : Contains(text, ph) THEN "Expired or Full"
    ELSE IF name # << >> /\ ~Contains(Lower(name), << "invite" >>) THEN "Active"
    ELSE "Inactive"

\* the phrases the claim lists
ClaimedPhrases ==
    { << "invite", "link", "was", "reset" >>,
      << "group", "no", "longer", "exists" >>,
      << "link", "no", "longer", "active" >>,
      << "group", "is", "full" >> }

\* C9 as stated: a same-domain page whose text contains "invite link was
\* reset", "group no longer exists", "link no longer active" or "group is
\* full" (case-insensitive) is Expired or Full whatever its name; otherwise
\* a non-empty name without "invite" gives Active; otherwise Inactive.
C9_PrecedenceClaimedPhrases ==
    \A l \in DOMAIN validated :
        (SameDomainPage(validated[l].resp)) =>
            validated[l].rec.Status.kind =
                StatusByPrecedence(ClaimedPhrases,
                                   validated[l].rec.GroupName,
                                   Lower(GetText(validated[l].resp.page)))

\* the phrases of the amended claim
AmendedPhrases ==
    { << "link", "was", "reset" >>,
      << "is", "no", "longer", "available" >>,
      << "group", "is", "full" >> }

\* C9 amended: a same-domain page whose text contains "link was reset", "is
\* no longer available" or "group is full" (case-insensitive) is Expired or
\* Full whatever its name; otherwise a non-empty name without "invite" gives
\* Active; otherwise Inactive.
C9_PrecedenceCodePhrases ==
    \A l \in DOMAIN validated :
        (SameDomainPage(validated[l].resp)) =>
            validated[l].rec.Status.kind =
                StatusByPrecedence(AmendedPhrases,
                                   validated[l].rec.GroupName,
                                   Lower(GetText(validated[l].resp.page)))

\* C9 witness: a page with an expiry phrase and a name that would make it
\* Active was validated as Expired or Full.
C9_Witness ==
    \E l \in DOMAIN validated :
        /\ SameDomainPage(validated[l].resp)
        /\ Contains(Lower(GetText(validated[l].resp.page)),
                    << "group", "is", "full" >>)
        /\ validated[l].rec.GroupName = << "Foo" >>
        /\ validated[l].rec.Status.kind = "Expired or Full"

\* C10: a 2xx response whose final URL is on another host than the
\* invitation domain is Redirected Away, carrying that host.
C10_OffSiteIsRedirectedAway ==
    \A l \in DOMAIN validated :
        ( /\ validated[l].resp.kind = "response"
          /\ 200 <= validated[l].resp.status_code
          /\ validated[l].resp.status_code < 300
          /\ Netloc(validated[l].resp.url) # << WHATSAPP_DOMAIN >> )
        => validated[l].rec.Status =
               [kind |-> "Redirected Away",
                detail |-> Netloc(validated[l].resp.url)]

NetworkErrorKinds == { "Timeout Error", "HTTP Error", "Connection Error" }

\* the stored records of link whose status is a network error
NetworkErrorRecords(link) ==
    { i \in 1..Len(results) :
          /\ results[i].GroupLink = link
          /\ results[i].Status.kind \in NetworkErrorKinds }

\* the cached entry of the key of link is there and its ttl has passed
TtlExpired(link) ==
    /\ cache[CacheKey(link)] # << >>
    /\ ~CacheFresh(cache[CacheKey(link)][1], now)

\* C11: a validate_link call whose request failed ends with that one
\* request (the future goes from fetching to done, never back to a second
\* request), and a batch submitted after the cache ttl has passed, with no
\* Clear All Results in between, dispatches every submitted link whose
\* stored record is a network error, so that it is fetched again.
C11_NetworkErrorRefetchedAfterTtl ==
    /\ [][\A l \in DOMAIN futures :
               futures[l].st = "fetching" /\ futures'[l] # futures[l]
                   => /\ futures'[l].st = "done"
                      /\ futures'[l].how = "request"]_vars
    /\ [][pc = "idle" /\ pc' = "validating" =>
               \A l \in links_to_process' :
                   NetworkErrorRecords(l) # {} /\ TtlExpired(l)
                       => l \in DOMAIN futures']_vars

\* s has the characters of t from index i on
StartsWith(s, i, t) ==
    /\ i + Len(t) - 1 <= Len(s)
    /\ SubSeq(s, i, i + Len(t) - 1) = t

\* scheme://host/ of a link of the invitation domain, << >> for another string
BaseOf(s) ==
    IF StartsWith(s, 1, HTTP \o << "s" >> \o HOST_SLASH)
    THEN HTTP \o << "s" >> \o HOST_SLASH
    ELSE IF StartsWith(s, 1, HTTP \o HOST_SLASH)
    THEN HTTP \o HOST_SLASH
    ELSE << >>

\* where the invite-code path segment starts: after the base url and after
\* the invite/ segment when there is one
CodeStart(s) ==
    IF StartsWith(s, Len(BaseOf(s)) + 1, INVITE_SEGMENT)
    THEN Len(BaseOf(s)) + Len(INVITE_SEGMENT) + 1
    ELSE Len(BaseOf(s)) + 1

\* the invite-code path segment: up to the next /, ? or #, or to the end
CodeSegment(s) == SubSeq(s, CodeStart(s), FirstDelim(s, CodeStart(s)) - 1)

\* at least 16 characters, all of [A-Za-z0-9_-]
ValidCode(code) ==
    /\ Len(code) >= MinCodeLength
    /\ \A i \in 1..Len(code) : CodeChar(code[i])

\* C12: normalize_whatsapp_link returns None for every link of the
\* invitation domain whose invite-code path segment is shorter than 16
\* characters or has a character outside [A-Za-z0-9_-], and it returns a
\* link only when the whole segment is a valid code, the link then being
\* scheme://host/ followed by that segment.
C12_InvalidCodeSegmentGivesNone ==
    normalized # << >> =>
        LET s == Strip(raw_link)
        IN  /\ BaseOf(s) # << >> /\ ~ValidCode(CodeSegment(s))
                => normalized[1] = << >>
            /\ normalized[1] # << >>
                => /\ BaseOf(s) # << >>
                   /\ ValidCode(CodeSegment(s))
                   /\ normalized[1][1] = BaseOf(s) \o CodeSegment(s)

\* a raw form of the invite code that is the first k characters after the
\* base url and the optional invite/: nothing, a query string or a fragment
\* follows the code
RawFormOf(s, invite, k) ==
    LET start == Len(BaseOf(s) \o invite) + 1
    IN  /\ BaseOf(s) # << >>
        /\ StartsWith(s, Len(BaseOf(s)) + 1, invite)
        /\ start + k - 1 <= Len(s)
        /\ ValidCode(SubSeq(s, start, start + k - 1))
        /\ start + k <= Len(s) => s[start + k] \in {"?", "#"}

\* scheme://host/code with a valid code and nothing else
IsCanonical(s) == RawFormOf(s, << >>, Len(s) - Len(BaseOf(s)))

\* C13: every raw form of a valid invite code, with or without the invite/
\* segment and whatever query string or fragment follows the code,
\* normalizes to scheme://host/code, which has no query, fragment or
\* trailing slash and is the same for all these forms; and a canonical link
\* normalizes to itself.
C13_RawFormsNormalizeToCanonical ==
    normalized # << >> =>
        /\ \A invite \in { << >>, INVITE_SEGMENT } :
           \A k \in 0..Len(raw_link) :
               RawFormOf(raw_link, invite, k) =>
                   LET start == Len(BaseOf(raw_link) \o invite) + 1
                       canonical == BaseOf(raw_link)
                                        \o SubSeq(raw_link, start, start + k - 1)
                   IN  /\ normalized[1] = << canonical >>
                       /\ IsCanonical(canonical)
        /\ IsCanonical(raw_link) => normalized[1] = << raw_link >>

\* C13 witness: a raw form with the invite/ segment and a query string has
\* been normalized to a canonical link, and so has a canonical link.
C13_Witness ==
    /\ normalized # << >>
    /\ normalized[1] # << >>
    /\ \/ /\ StartsWith(raw_link, Len(BaseOf(raw_link)) + 1, INVITE_SEGMENT)
          /\ \E k \in 0..Len(raw_link) :
                 /\ RawFormOf(raw_link, INVITE_SEGMENT, k)
                 /\ Len(BaseOf(raw_link) \o INVITE_SEGMENT) + k < Len(raw_link)
       \/ IsCanonical(raw_link)

\* the fetch of the page or its parsing failed
PageFailed(page) ==
    \/ page.kind # "response"
    \/ page.status_code >= 400
    \/ page.raises # "none"

\* the canonical links found on a page
CanonicalLinksOn(page) ==
    { normalize_whatsapp_link(h)[1] :
          h \in { x \in page.hrefs : normalize_whatsapp_link(x) # << >> } }

\* C14: in a scan of several pages a page whose fetch or parsing fails adds
\* nothing and stops nothing: the set collected after k pages is the union
\* of the canonical links found on those of the first k pages that did not
\* fail, wherever the failed pages are; a failed page leaves the set as it
\* was; and the scan goes on to the last page.
C14_PageFailureIsIsolated ==
    /\ [](all_found_links =
              UNION { CanonicalLinksOn(search_results[i]) :
                          i \in { j \in 1..scraped :
                                     ~PageFailed(search_results[j]) } })
    /\ [][scraped' = scraped + 1 /\ PageFailed(search_results[scraped + 1])
              => all_found_links' = all_found_links]_vars
    /\ Scanning ~> (scraped = Len(search_results))

\* C14 witness: a scan of three pages has ended whose second page failed;
\* the first page gave links, the third page gave a link the first had not,
\* and all of them are in the final set.
C14_Witness ==
    /\ Len(search_results) = 3
    /\ scraped = 3
    /\ PageFailed(search_results[2])
    /\ ~PageFailed(search_results[1])
    /\ ~PageFailed(search_results[3])
    /\ CanonicalLinksOn(search_results[1]) # {}
    /\ CanonicalLinksOn(search_results[3]) \ CanonicalLinksOn(search_results[1]) # {}
    /\ CanonicalLinksOn(search_results[1]) \cup CanonicalLinksOn(search_results[3])
           \subseteq all_found_links

====
